---- MODULE Spec2Model ----
(***************************************************************************)
(* Model of bot.py: a Discord bot that forwards the text of qualifying     *)
(* messages to a completion service and replies with a rendered embed.     *)
(*                                                                         *)
(* Texts are sequences of one-character strings.  A dict is a function     *)
(* whose DOMAIN is its set of keys.  Numbers are held in tenths (56.0 is   *)
(* 560) so that the ".0f" and ".1f" conversions are computed, not assumed. *)
(*                                                                         *)
(* Granularity: one action per step of the asyncio event loop, that is     *)
(* the code between two awaits of on_message, and one action per step of   *)
(* the executor that runs the blocking completion-service calls.           *)
(***************************************************************************)
EXTENDS Naturals, Sequences, FiniteSets, TLC

VARIABLES
    WATCH_CHANNEL_IDS,  \* the channel allow-list parsed at start-up
    event,              \* event[m]: the message event delivered as m
    pc,                 \* pc[m]: where the handler of m stands
    workQueue,          \* calls handed to the executor and not yet started
    running,            \* messages whose call occupies a worker thread
    hung,               \* messages whose running call never returns
    typing,             \* typing[ch]: typing contexts open on channel ch
    calls,              \* calls[m]: completion requests issued for m
    outcome,            \* outcome[m]: how the calls of m ended, and the
                        \* length of the text the fallback call returned
    sending,            \* sending[m]: the reply of m on its way to Discord
    replies,            \* replies[m]: the reply sends of m that have ended,
                        \* oldest first, each with its line and how it ended
    payload,            \* renderer: the payload handed to it
    embed,              \* renderer: the embed it returned
    rpc                 \* renderer: "off", "ready" or "rendered"

hvars == <<WATCH_CHANNEL_IDS, event, pc, workQueue, running, hung, typing,
           calls, outcome, sending, replies>>
rvars == <<payload, embed, rpc>>
vars == <<WATCH_CHANNEL_IDS, event, pc, workQueue, running, hung, typing,
          calls, outcome, sending, replies, payload, embed, rpc>>

(*************************** bounds of the model ***************************)
MaxMsgs == 2
MaxWorkers == 2
MaxOver == 2
MaxItems == 22

(**************************** program constants ****************************)
ReplyLimit == 1900
ItemLimit == 20

\* The messages of the safety specification, and those of the liveness
\* specification, which needs one more: MaxWorkers hung calls and one behind.
Msgs == 1..MaxMsgs
LiveMsgs == 1..(MaxMsgs + 1)
\* The channel identifiers that occur.
Channels == {1, 2}

Min(a, b) == IF a <= b THEN a ELSE b

(********************************* texts ***********************************)
\* A text of n characters whose neighbours differ, so that a cut at the
\* wrong index shows.
Text(n) == [i \in 1..n |-> IF i % 2 = 1 THEN "a" ELSE "b"]

IsSpace(c) == c \in {" ", "\t", "\n"}

RECURSIVE LStrip(_)
LStrip(s) ==
    IF s # <<>> /\ IsSpace(Head(s)) THEN LStrip(Tail(s)) ELSE s

RECURSIVE RStrip(_)
RStrip(s) ==
    IF s # <<>> /\ IsSpace(s[Len(s)]) THEN RStrip(SubSeq(s, 1, Len(s) - 1)) ELSE s

\* str.strip()
Strip(s) == RStrip(LStrip(s))

\* Slice with its limit off by one.
SliceOneMore(s, n) == SubSeq(s, 1, Min(Len(s), n + 1))

\* s[:n]
Slice(s, n) == SubSeq(s, 1, Min(Len(s), n))

(******************************** numbers **********************************)
Digit(d) ==
    CASE d = 0 -> "0" [] d = 1 -> "1" [] d = 2 -> "2" [] d = 3 -> "3"
      [] d = 4 -> "4" [] d = 5 -> "5" [] d = 6 -> "6" [] d = 7 -> "7"
      [] d = 8 -> "8" [] d = 9 -> "9"

RECURSIVE Dec(_)
Dec(n) == IF n < 10 THEN <<Digit(n)>> ELSE Dec(n \div 10) \o <<Digit(n % 10)>>

\* format(x, ".0f") of the number t/10: round to the nearest integer, a tie
\* going to the even one.
Fmt0(t) ==
    LET q == t \div 10
        r == t % 10
    IN  Dec(IF r < 5 THEN q
            ELSE IF r > 5 THEN q + 1
            ELSE IF q % 2 = 0 THEN q ELSE q + 1)

\* format(x, ".1f") of the number t/10.
Fmt1(t) == Dec(t \div 10) \o <<".", Digit(t % 10)>>

(********************************* dicts ***********************************)
EmptyDict == <<>>

\* d.get(k, default)
Get(d, k, default) == IF k \in DOMAIN d THEN d[k] ELSE default

\* "\n".join(lines)
RECURSIVE Join(_)
Join(lines) ==
    IF lines = <<>> THEN <<>>
    ELSE IF Len(lines) = 1 THEN lines[1]
    ELSE lines[1] \o <<"\n">> \o Join(Tail(lines))

(******************************* renderer **********************************)
\* The "Totals" field of a food log.
TotalsValue(totals) ==
    <<"*","*","C","a","l","o","r","i","e","s",":","*","*"," ">>
        \o Fmt0(Get(totals, "calories_kcal", 0)) \o <<" ","k","c","a","l","\n">>
    \o <<"*","*","P","r","o","t","e","i","n",":","*","*"," ">>
        \o Fmt1(Get(totals, "protein_g", 0)) \o <<" ","g"," "," ">>
    \o <<"*","*","C","a","r","b","s",":","*","*"," ">>
        \o Fmt1(Get(totals, "carbs_g", 0)) \o <<" ","g"," "," ">>
    \o <<"*","*","F","a","t",":","*","*"," ">>
        \o Fmt1(Get(totals, "fat_g", 0)) \o <<" ","g">>

\* One line of the "Items" field.  The source's bullet and dash, which are
\* not ASCII, are written "*" and "-" here.
ItemLine(it) ==
    LET q == IF "quantity" \in DOMAIN it /\ it["quantity"] # <<>>
             THEN <<" ", "-", " ">> \o it["quantity"]
             ELSE <<>>
    IN  <<"*", " ", "*", "*">> \o Get(it, "name", <<"?">>) \o <<"*", "*">> \o q
        \o <<":", " ">> \o Fmt0(Get(it, "calories_kcal", 0))
        \o <<" ","k","c","a","l"," ","|"," ">>
        \o <<"P", " ">> \o Fmt1(Get(it, "protein_g", 0))
        \o <<" ", "*", " ", "C", " ">> \o Fmt1(Get(it, "carbs_g", 0))
        \o <<" ", "*", " ", "F", " ">> \o Fmt1(Get(it, "fat_g", 0))

\* ShownItems without the slice.
ShownItemsAll(items) == items

\* items[:20]
ShownItems(items) == SubSeq(items, 1, Min(Len(items), ItemLimit))

\* for it in items[:20]: lines.append(...)
RECURSIVE ItemLines(_)
ItemLines(shown) ==
    IF shown = <<>> THEN <<>>
    ELSE <<ItemLine(Head(shown))>> \o ItemLines(Tail(shown))

\* The "Targets" field of a macro plan.
TargetsValue(plan) ==
    <<"*","*","C","a","l","o","r","i","e","s",":","*","*"," ">>
        \o Fmt0(Get(plan, "calories_kcal", 0))
        \o <<" ","k","c","a","l","/","d","a","y","\n">>
    \o <<"*","*","P","r","o","t","e","i","n",":","*","*"," ">>
        \o Fmt0(Get(plan, "protein_g", 0)) \o <<" ","g"," "," ">>
    \o <<"*","*","C","a","r","b","s",":","*","*"," ">>
        \o Fmt0(Get(plan, "carbs_g", 0)) \o <<" ","g"," "," ">>
    \o <<"*","*","F","a","t",":","*","*"," ">>
        \o Fmt0(Get(plan, "fat_g", 0)) \o <<" ","g">>

FooterPrefix == <<"A","s","s","u","m","p","t","i","o","n","s",":"," ">>

\* FooterText without the slice.
FooterTextUncut(assumptions) == FooterPrefix \o assumptions

\* f"Assumptions: {assumptions[:1900]}"
FooterText(assumptions) == FooterPrefix \o Slice(assumptions, ReplyLimit)

FoodLogFields(p) ==
    LET totals == Get(p, "totals", EmptyDict)
        items == Get(p, "items", <<>>)
    IN  <<[name |-> "Totals", value |-> TotalsValue(totals)]>>
        \o (IF items # <<>>
            THEN <<[name |-> "Items", value |-> Join(ItemLines(ShownItems(items)))]>>
            ELSE <<>>)

MacroPlanFields(p) ==
    LET plan == Get(p, "plan", EmptyDict)
    IN  <<[name |-> "Targets", value |-> TargetsValue(plan)]>>
        \o (IF "notes" \in DOMAIN plan /\ plan["notes"] # <<>>
            THEN <<[name |-> "Notes", value |-> plan["notes"]]>>
            ELSE <<>>)

build_embed_from_payload(p, author) ==
    LET kind == Get(p, "kind", "None")
        assumptions == Get(p, "assumptions", <<>>)
    IN  [title |-> IF kind = "food_log" THEN "Calories & Macros (Food Log)"
                   ELSE IF kind = "macro_plan" THEN "Daily Macro Targets"
                   ELSE "Nutrition Result",
         description |->
             IF kind \in {"food_log", "macro_plan"} THEN ""
             ELSE "I couldn't determine whether this was a food log or macro plan.",
         fields |-> IF kind = "food_log" THEN FoodLogFields(p)
                    ELSE IF kind = "macro_plan" THEN MacroPlanFields(p)
                    ELSE <<>>,
         footer |-> IF assumptions # <<>>
                    THEN [set |-> TRUE, text |-> FooterText(assumptions)]
                    ELSE [set |-> FALSE, text |-> <<>>],
         author |-> author]

NoEmbed == [title |-> "", description |-> "", fields |-> <<>>,
            footer |-> [set |-> FALSE, text |-> <<>>], author |-> ""]

(**************************** renderer inputs ******************************)
ItemName(i) == <<"f">> \o Dec(i)

\* The i-th item of a food log, in one of four shapes: every field, the two
\* required ones, none at all, and an empty quantity.
ItemOf(shape, i) ==
    CASE shape = 0 ->
            [name |-> ItemName(i), quantity |-> <<"1","8","0"," ","g">>,
             calories_kcal |-> 10 * i + 5, protein_g |-> 560,
             carbs_g |-> 0, fat_g |-> 60 + i]
      [] shape = 1 -> [name |-> ItemName(i), calories_kcal |-> 3000]
      [] shape = 2 -> EmptyDict
      [] OTHER -> [name |-> ItemName(i), quantity |-> <<>>, calories_kcal |-> 15]

ItemsOf(n, seed) == [i \in 1..n |-> ItemOf((i + seed) % 4, i)]

AssumptionLens ==
    {0, 3, ReplyLimit - 1, ReplyLimit} \cup {ReplyLimit + k : k \in 1..MaxOver}

AssumptionParts ==
    {EmptyDict} \cup {"assumptions" :> Text(n) : n \in AssumptionLens}

TotalsParts ==
    {EmptyDict,
     "totals" :> [calories_kcal |-> 3000, protein_g |-> 560,
                  carbs_g |-> 0, fat_g |-> 60],
     "totals" :> [calories_kcal |-> 25]}

ItemsParts ==
    {EmptyDict} \cup {"items" :> ItemsOf(n, seed) : n \in 0..MaxItems, seed \in 0..3}

PlanParts ==
    {EmptyDict,
     "plan" :> [calories_kcal |-> 22000, protein_g |-> 1800, carbs_g |-> 2200,
                fat_g |-> 700, notes |-> <<"c","u","t">>],
     "plan" :> [calories_kcal |-> 22005, notes |-> <<>>]}

RenderPayloads ==
    {("kind" :> "food_log") @@ t @@ i @@ a :
        t \in TotalsParts, i \in ItemsParts, a \in AssumptionParts}
    \cup {("kind" :> "macro_plan") @@ pl @@ a :
        pl \in PlanParts, a \in AssumptionParts}
    \cup {k @@ ("items" :> ItemsOf(1, 0)) @@ a :
        k \in {EmptyDict, "kind" :> "other"}, a \in AssumptionParts}

(***************************** handler inputs *****************************)
Contents == {<<>>, <<" ", "\n">>, <<" ", "h", "i", " ">>}

\* What on_message reads of a message event.
Events == [bot : BOOLEAN, channel : Channels, content : Contents]

\* The text of both apology replies; the source's dash is written "-".
Apology ==
    <<"S","o","r","r","y"," ","-"," ","I"," ","c","o","u","l","d","n","'","t",
      " ","p","r","o","c","e","s","s"," ","t","h","a","t"," ","j","u","s","t",
      " ","n","o","w",".">>

\* client.responses.create(...): schema is TRUE when response_format is given.
Request(schema, text) ==
    [model |-> "gpt-4o-mini", instructions |-> "SYSTEM_PROMPT",
     schema |-> schema, input |-> text]

HandlerPayloads ==
    {[kind |-> "food_log", items |-> ItemsOf(1, 0),
      totals |-> [calories_kcal |-> 15], assumptions |-> Text(3)]}

\* What the service does with the primary request: the request raises, or
\* it returns a text that is no JSON, JSON that is no object, or an object.
PrimaryResponses ==
    {[status |-> "error", json |-> FALSE, type |-> "none", value |-> EmptyDict],
     [status |-> "ok", json |-> FALSE, type |-> "none", value |-> EmptyDict],
     [status |-> "ok", json |-> TRUE, type |-> "array", value |-> EmptyDict]}
    \cup {[status |-> "ok", json |-> TRUE, type |-> "object", value |-> p] :
            p \in HandlerPayloads}

RawLens == {2, ReplyLimit + MaxOver}

RawTexts == {Text(n) : n \in RawLens}

\* What the service does with the fallback request.
FallbackResponses ==
    {[status |-> "error", text |-> <<>>]}
    \cup {[status |-> "ok", text |-> raw] : raw \in RawTexts}

(***************************** handler state ******************************)
NoEvent == [bot |-> FALSE, channel |-> 0, content |-> <<>>]

NoReply == [line |-> 0, embed |-> NoEmbed, text |-> <<>>]

InitHandler ==
    /\ WATCH_CHANNEL_IDS \in SUBSET Channels
    /\ event = [m \in LiveMsgs |-> NoEvent]
    /\ pc = [m \in LiveMsgs |-> "pending"]
    /\ workQueue = <<>>
    /\ running = {}
    /\ hung = {}
    /\ typing = [ch \in Channels |-> 0]
    /\ calls = [m \in LiveMsgs |-> <<>>]
    /\ outcome = [m \in LiveMsgs |->
                      [primary |-> "none", fallback |-> "none", rawLen |-> 0]]
    /\ sending = [m \in LiveMsgs |-> NoReply]
    /\ replies = [m \in LiveMsgs |-> <<>>]

(*************************** renderer on its own ***************************)
InitRender ==
    /\ InitHandler
    /\ WATCH_CHANNEL_IDS = {}
    /\ payload \in RenderPayloads
    /\ embed = NoEmbed
    /\ rpc = "ready"

Render ==
    /\ rpc = "ready"
    /\ embed' = build_embed_from_payload(payload, "user")
    /\ rpc' = "rendered"
    /\ UNCHANGED <<payload, hvars>>

NextRender == Render

SpecRender == InitRender /\ [][NextRender]_vars

(******************************** handler **********************************)
(* pc[m] is "pending" before the event of m is delivered, "dropped" when    *)
(* on_message returned at a guard, "awaitNNN" while the handler waits at    *)
(* the await of line NNN, "done" when on_message has returned and "raised"  *)
(* when an exception has left it.  Events are delivered in the order of m.  *)
(* Entering a typing context is taken not to raise, and the code from one   *)
(* await to the next is one step, as it is for the event loop.              *)
InFlight(m) == pc[m] \in {"await189", "await203"}

\* Offloaded, had the calls been made on the event loop itself.
OnTheLoop == FALSE

\* Both completion calls are handed to the executor (run_in_executor), so a
\* call in flight leaves the event loop free.
Offloaded == TRUE

\* Whether the event loop can run a step of the handler of m.
LoopFree(m) == Offloaded \/ \A o \in LiveMsgs \ {m} : ~InFlight(o)

\* Drops without the strip of the content.
DropsUnstripped(e) ==
    IF e.bot THEN TRUE
    ELSE IF WATCH_CHANNEL_IDS # {} /\ e.channel \notin WATCH_CHANNEL_IDS THEN TRUE
    ELSE e.content = <<>>

\* The three guards at the head of on_message, in their order.
Drops(e) ==
    IF e.bot THEN TRUE
    ELSE IF WATCH_CHANNEL_IDS # {} /\ e.channel \notin WATCH_CHANNEL_IDS THEN TRUE
    ELSE Strip(e.content) = <<>>

\* async with message.channel.typing(): entering and leaving.
TypingEnter(t, ch) == [t EXCEPT ![ch] = @ + 1]
\* TypingExit, had the context not been left.
TypingStays(t, ch) == t

TypingExit(t, ch) == [t EXCEPT ![ch] = @ - 1]

\* What the first try block raises on a response: call_openai_for_nutrition
\* raises what the request raised, json.loads raises JSONDecodeError, and
\* build_embed_from_payload raises on a payload without .get.
TryBlock(resp) ==
    IF resp.status = "error" THEN "Exception"
    ELSE IF ~resp.json THEN "JSONDecodeError"
    ELSE IF resp.type # "object" THEN "Exception"
    ELSE "none"

\* CatchesJSONDecodeError, had the clause been a bare except.
CatchesEverything(exc) == TRUE

\* except json.JSONDecodeError
CatchesJSONDecodeError(exc) == exc = "JSONDecodeError"

\* message.reply(...) issued at a line of on_message.
Reply(line, e, text) == [line |-> line, embed |-> e, text |-> text]

\* The handler after a reply send that raised: the send of line 191 is inside
\* the outer try, that of line 204 inside the inner one, and the apologies
\* are inside no try.
AfterFailedReply(at) ==
    CASE at = "await191" -> "await212"
      [] at = "await204" -> "await207"
      [] OTHER -> "raised"

\* AfterReply, had the reply of line 204 run on into the apology.
AfterReplyFallsThrough(at) == IF at = "await204" THEN "await207" ELSE "done"

\* The handler after a reply send that returned.
AfterReply(at) == "done"

\* The event loop delivers the next message event, one of `evs`, and
\* on_message runs to its first await or returns.
Deliver(m, evs) ==
    /\ pc[m] = "pending"
    /\ \A o \in 1..(m - 1) : pc[o] # "pending"
    /\ LoopFree(m)
    /\ \E e \in evs :
        /\ event' = [event EXCEPT ![m] = e]
        /\ IF Drops(e)
           THEN /\ pc' = [pc EXCEPT ![m] = "dropped"]
                /\ UNCHANGED <<typing, calls, workQueue>>
           ELSE /\ pc' = [pc EXCEPT ![m] = "await189"]
                /\ typing' = TypingEnter(typing, e.channel)
                /\ calls' = [calls EXCEPT
                                ![m] = <<Request(TRUE, Strip(e.content))>>]
                /\ workQueue' = Append(workQueue, m)
    /\ UNCHANGED <<WATCH_CHANNEL_IDS, running, hung, outcome, sending, replies,
                   rvars>>

on_message(m) == Deliver(m, Events)

\* The executor gives the oldest waiting call a worker thread.
ExecutorStart ==
    /\ workQueue # <<>>
    /\ Cardinality(running) < MaxWorkers
    /\ running' = running \cup {Head(workQueue)}
    /\ workQueue' = Tail(workQueue)
    /\ UNCHANGED <<WATCH_CHANNEL_IDS, event, pc, hung, typing, calls, outcome,
                   sending, replies, rvars>>

\* The service never answers the running call of m.
ServiceHangs(m) ==
    /\ m \in running \ hung
    /\ hung' = hung \cup {m}
    /\ UNCHANGED <<WATCH_CHANNEL_IDS, event, pc, workQueue, running, typing,
                   calls, outcome, sending, replies, rvars>>

\* The primary call returns or raises, and the handler runs on to its next
\* await: the reply of line 191, the fallback call, or the apology of 212.
PrimaryReturns(m) ==
    /\ pc[m] = "await189"
    /\ m \in running \ hung
    /\ LoopFree(m)
    /\ \E resp \in PrimaryResponses :
        LET exc == TryBlock(resp)
            ch == event[m].channel
            content == Strip(event[m].content)
        IN  /\ outcome' = [outcome EXCEPT ![m].primary =
                              IF resp.status = "error" THEN "error"
                              ELSE IF resp.json THEN "json" ELSE "notjson"]
            /\ IF exc = "none"
               THEN /\ pc' = [pc EXCEPT ![m] = "await191"]
                    /\ typing' = TypingExit(typing, ch)
                    /\ sending' = [sending EXCEPT ![m] =
                          Reply(191, build_embed_from_payload(resp.value, "user"),
                                <<>>)]
                    /\ UNCHANGED <<calls, workQueue>>
               ELSE IF CatchesJSONDecodeError(exc)
               THEN /\ pc' = [pc EXCEPT ![m] = "await203"]
                    /\ typing' = TypingEnter(TypingExit(typing, ch), ch)
                    /\ calls' = [calls EXCEPT
                                    ![m] = Append(@, Request(FALSE, content))]
                    /\ workQueue' = Append(workQueue, m)
                    /\ UNCHANGED sending
               ELSE /\ pc' = [pc EXCEPT ![m] = "await212"]
                    /\ typing' = TypingExit(typing, ch)
                    /\ sending' = [sending EXCEPT ![m] =
                          Reply(212, NoEmbed, Apology)]
                    /\ UNCHANGED <<calls, workQueue>>
    /\ running' = running \ {m}
    /\ UNCHANGED <<WATCH_CHANNEL_IDS, event, hung, replies, rvars>>

\* The fallback call returns or raises: the reply of line 204, or the
\* apology of line 207.
FallbackReturns(m) ==
    /\ pc[m] = "await203"
    /\ m \in running \ hung
    /\ LoopFree(m)
    /\ \E resp \in FallbackResponses :
        /\ outcome' = [outcome EXCEPT
                          ![m].fallback =
                              IF resp.status = "error" THEN "error" ELSE "text",
                          ![m].rawLen = Len(resp.text)]
        /\ IF resp.status = "ok"
           THEN /\ pc' = [pc EXCEPT ![m] = "await204"]
                /\ sending' = [sending EXCEPT ![m] =
                      Reply(204, NoEmbed, Slice(resp.text, ReplyLimit))]
           ELSE /\ pc' = [pc EXCEPT ![m] = "await207"]
                /\ sending' = [sending EXCEPT ![m] =
                      Reply(207, NoEmbed, Apology)]
    /\ typing' = TypingExit(typing, event[m].channel)
    /\ running' = running \ {m}
    /\ UNCHANGED <<WATCH_CHANNEL_IDS, event, workQueue, hung, calls, replies,
                   rvars>>

Replying(m) == pc[m] \in {"await191", "await204", "await207", "await212"}

\* The reply send of m has ended with `status`, and the handler runs on to
\* `next`: an apology is sent where the code goes on to one.
Continue(m, status, next) ==
    /\ pc' = [pc EXCEPT ![m] = next]
    /\ replies' = [replies EXCEPT ![m] =
           Append(@, [line |-> sending[m].line, status |-> status])]
    /\ sending' = [sending EXCEPT ![m] =
           IF next = "await212" THEN Reply(212, NoEmbed, Apology)
           ELSE IF next = "await207" THEN Reply(207, NoEmbed, Apology)
           ELSE NoReply]

\* The reply send of m returns: the handler is over.
ReplySucceeds(m) ==
    /\ Replying(m)
    /\ LoopFree(m)
    /\ Continue(m, "ok", AfterReply(pc[m]))
    /\ UNCHANGED <<WATCH_CHANNEL_IDS, event, workQueue, running, hung, typing,
                   calls, outcome, rvars>>

\* The reply send of m raises: an apology follows where a try encloses the
\* send, and the exception leaves on_message where none does.
ReplyFails(m) ==
    /\ Replying(m)
    /\ LoopFree(m)
    /\ Continue(m, "failed", AfterFailedReply(pc[m]))
    /\ UNCHANGED <<WATCH_CHANNEL_IDS, event, workQueue, running, hung, typing,
                   calls, outcome, rvars>>

Init ==
    /\ InitHandler
    /\ payload = EmptyDict
    /\ embed = NoEmbed
    /\ rpc = "off"

Next ==
    \/ \E m \in Msgs : on_message(m)
    \/ ExecutorStart
    \/ \E m \in Msgs : ServiceHangs(m)
    \/ \E m \in Msgs : PrimaryReturns(m)
    \/ \E m \in Msgs : FallbackReturns(m)
    \/ \E m \in Msgs : ReplySucceeds(m)
    \/ \E m \in Msgs : ReplyFails(m)

Spec == Init /\ [][Next]_vars

(* The liveness specification: MaxMsgs + 1 messages, each from a user, with *)
(* text, on the first channel.  The event loop runs a ready handler step, a *)
(* reply send ends one way or the other, the executor starts a waiting call *)
(* when a worker is free, and the service answers a running call unless it  *)
(* hangs on it (ServiceHangs, which nothing obliges and nothing bounds).    *)
LiveEvents == {e \in Events : ~e.bot /\ e.channel = 1 /\ Strip(e.content) # <<>>}

on_message_live(m) == Deliver(m, LiveEvents)

NextLive ==
    \/ \E m \in LiveMsgs : on_message_live(m)
    \/ ExecutorStart
    \/ \E m \in LiveMsgs : ServiceHangs(m)
    \/ \E m \in LiveMsgs : PrimaryReturns(m)
    \/ \E m \in LiveMsgs : FallbackReturns(m)
    \/ \E m \in LiveMsgs : ReplySucceeds(m)
    \/ \E m \in LiveMsgs : ReplyFails(m)

Fairness ==
    /\ \A m \in LiveMsgs : WF_vars(on_message_live(m))
    /\ \A m \in LiveMsgs : WF_vars(ReplySucceeds(m) \/ ReplyFails(m))
    /\ \A m \in LiveMsgs : WF_vars(PrimaryReturns(m))
    /\ \A m \in LiveMsgs : WF_vars(FallbackReturns(m))
    /\ WF_vars(ExecutorStart)

SpecLive == Init /\ [][NextLive]_vars /\ Fairness

(******************************** claims ***********************************)
Forwarded(m) == pc[m] \notin {"pending", "dropped"}
Finished(m) == pc[m] \in {"done", "raised"}

\* The lines of the reply sends of m so far, the one under way included.
SentLines(m) ==
    [i \in 1..Len(replies[m]) |-> replies[m][i].line]
        \o (IF Replying(m) THEN <<sending[m].line>> ELSE <<>>)

OkCount(m) ==
    Cardinality({i \in 1..Len(replies[m]) : replies[m][i].status = "ok"})

FailedCount(m) ==
    Cardinality({i \in 1..Len(replies[m]) : replies[m][i].status = "failed"})

ApologySent(m) ==
    \E i \in 1..Len(SentLines(m)) : SentLines(m)[i] \in {207, 212}

NothingDone(m) ==
    calls[m] = <<>> /\ replies[m] = <<>> /\ sending[m] = NoReply

Blank(text) == \A i \in 1..Len(text) : IsSpace(text[i])

\* C1: an event whose sender is a bot, or whose channel is outside a
\* non-empty allow-list, or whose text is empty or all whitespace, is dropped:
\* no completion call is made and no reply is sent for it.
C1_FilteredEventsAreDropped ==
    \A m \in Msgs :
        (/\ pc[m] # "pending"
         /\ \/ event[m].bot
            \/ WATCH_CHANNEL_IDS # {} /\ event[m].channel \notin WATCH_CHANNEL_IDS
            \/ Blank(event[m].content))
        => pc[m] = "dropped" /\ NothingDone(m)

\* A user's message outside the allow-list and a user's whitespace-only
\* message inside it have both been dropped.
C1_Witness ==
    \E a, b \in Msgs :
        /\ pc[a] = "dropped" /\ pc[b] = "dropped"
        /\ ~event[a].bot /\ ~Blank(event[a].content)
        /\ WATCH_CHANNEL_IDS # {} /\ event[a].channel \notin WATCH_CHANNEL_IDS
        /\ ~event[b].bot /\ event[b].channel \in WATCH_CHANNEL_IDS
        /\ event[b].content = <<" ", "\n">>

\* C2: with an empty allow-list no channel qualifies: every message event is
\* dropped, with no completion call and no reply.
C2_EmptyAllowListDropsAll ==
    WATCH_CHANNEL_IDS = {} => \A m \in Msgs : NothingDone(m)

\* The fallback request of m: one, after the primary one, with the same
\* instructions and text and no schema.
OneFallback(m) ==
    /\ Len(calls[m]) = 2
    /\ calls[m][1].schema /\ ~calls[m][2].schema
    /\ calls[m][2].instructions = calls[m][1].instructions
    /\ calls[m][2].input = calls[m][1].input
    /\ calls[m][1].input = Strip(event[m].content)

\* The first reply after the fallback call returned is that of line 204, and
\* it carries the first 1900 characters of the returned text.
RawTextReplied(m) ==
    /\ SentLines(m) # <<>> /\ SentLines(m)[1] = 204
    /\ pc[m] = "await204" =>
          \E raw \in {r \in RawTexts : Len(r) = outcome[m].rawLen} :
              /\ Len(sending[m].text) <= ReplyLimit
              /\ Len(sending[m].text) = Min(Len(raw), ReplyLimit)
              /\ sending[m].text = SubSeq(raw, 1, Len(sending[m].text))
              /\ sending[m].embed = NoEmbed

C4_NoRetryAndApology ==
    \A m \in Msgs :
        /\ outcome[m].primary = "error" =>
              /\ Len(calls[m]) = 1
              /\ SentLines(m) # <<>> /\ SentLines(m)[1] = 212
        /\ outcome[m].fallback = "error" =>
              /\ Len(calls[m]) = 2
              /\ SentLines(m) # <<>> /\ SentLines(m)[1] = 207
        /\ pc[m] \in {"await207", "await212"} =>
              sending[m].text = Apology /\ sending[m].embed = NoEmbed

\* One handler is over after a failed primary call, another after a failed
\* fallback call.
C4_Witness ==
    \E a, b \in Msgs :
        /\ outcome[a].primary = "error" /\ pc[a] = "done"
        /\ outcome[b].fallback = "error" /\ pc[b] = "done"

\* C5: whatever fails while a message is handled, its handler ends without
\* an unhandled error.
C5_NoUnhandledError == \A m \in Msgs : pc[m] # "raised"

\* C7: the typing contexts open on a channel are those of the messages of
\* that channel with a completion call in flight: the indicator is held
\* while a call is in flight and released when it has returned or failed.
C7_TypingHeldDuringCalls ==
    \A ch \in Channels :
        typing[ch] =
            Cardinality({m \in LiveMsgs : InFlight(m) /\ event[m].channel = ch})

\* On one channel a fallback call hangs with the indicator held, after the
\* handler of another message of that channel is over.
C7_Witness ==
    \E a, b \in Msgs :
        /\ a # b /\ event[a].channel = event[b].channel
        /\ pc[a] = "await203" /\ a \in hung
        /\ pc[b] = "done" /\ Len(calls[b]) = 2
        /\ typing[event[a].channel] = 1

C6_AnyNumberOfHungCalls ==
    \A m \in LiveMsgs :
        /\ pc[m] = "pending" ~> pc[m] # "pending"
        /\ Forwarded(m) ~> (Finished(m) \/ m \in hung)

\* C6 as amended: the same, as long as fewer calls hang than the executor
\* has worker threads.
C6_FewerHungThanWorkers ==
    \A m \in LiveMsgs :
        /\ pc[m] = "pending" ~> pc[m] # "pending"
        /\ Forwarded(m) ~>
              (Finished(m) \/ m \in hung \/ Cardinality(hung) >= MaxWorkers)

\* A call hangs, a worker thread is left, and a message delivered after the
\* hanging one has got its reply.
C6_Witness ==
    \E h, m \in LiveMsgs :
        /\ h < m /\ h \in hung /\ Cardinality(hung) < MaxWorkers
        /\ pc[m] = "done" /\ OkCount(m) = 1

Assumptions == Get(payload, "assumptions", <<>>)

\* C8 as stated: the footer text of an assumptions string longer than 1900
\* characters is exactly 1900 characters long.
C8_FooterIs1900 ==
    (rpc = "rendered" /\ Len(Assumptions) > ReplyLimit)
        => Len(embed.footer.text) = ReplyLimit

\* C8 as amended: the footer text is "Assumptions: " followed by exactly the
\* first 1900 characters of the assumptions string.
C8_FooterIsPrefixAnd1900 ==
    (rpc = "rendered" /\ Len(Assumptions) > ReplyLimit) =>
        /\ embed.footer.set
        /\ Len(embed.footer.text) = Len(FooterPrefix) + ReplyLimit
        /\ \A i \in 1..Len(FooterPrefix) : embed.footer.text[i] = FooterPrefix[i]
        /\ \A i \in 1..ReplyLimit :
              embed.footer.text[Len(FooterPrefix) + i] = Assumptions[i]

\* A macro plan with more than 1901 characters of assumptions is rendered.
C8_Witness ==
    /\ rpc = "rendered"
    /\ Len(Assumptions) > ReplyLimit + 1
    /\ Get(payload, "kind", "None") = "macro_plan"

Items == Get(payload, "items", <<>>)

Newlines(text) == Cardinality({i \in 1..Len(text) : text[i] = "\n"})

\* C9: the Items block of a food log with n >= 1 items has min(n, 20) lines,
\* those of the first min(n, 20) items in their order, and an item without
\* fields is shown as '?' with zeros.
C9_ItemsBlock ==
    (rpc = "rendered" /\ Get(payload, "kind", "None") = "food_log" /\ Len(Items) >= 1)
    => LET n == Len(Items)
           k == IF n <= 20 THEN n ELSE 20
       IN  /\ Len(embed.fields) = 2
           /\ embed.fields[2].name = "Items"
           /\ Newlines(embed.fields[2].value) = k - 1
           /\ embed.fields[2].value = Join([i \in 1..k |-> ItemLine(Items[i])])
           /\ (\E i \in 1..k : DOMAIN Items[i] = {}) =>
                 ItemLine(EmptyDict) =
                     <<"*"," ","*","*","?","*","*",":"," ","0"," ","k","c","a","l",
                       " ","|"," ","P"," ","0",".","0"," ","*"," ","C"," ",
                       "0",".","0"," ","*"," ","F"," ","0",".","0">>

\* A food log of more than 20 items, one of the first 20 without fields, is
\* rendered.
C9_Witness ==
    /\ rpc = "rendered"
    /\ Get(payload, "kind", "None") = "food_log"
    /\ Len(Items) > ItemLimit
    /\ \E i \in 1..ItemLimit : DOMAIN Items[i] = {}
    /\ Len(embed.fields) = 2

====
